---- MODULE Spec2Model ----
(***************************************************************************)
(* Model of the launch task of itch (tasks/launch: start/doStart,          *)
(* caveProblem, launchTypeForAction, appExt).                              *)
(*                                                                         *)
(* Strings whose characters the code inspects (action paths, executable    *)
(* names) are sequences of one-character strings, so that the regular      *)
(* expressions of the source are computed character by character.          *)
(* One launch attempt is a process whose position is pc; every `await` of  *)
(* doStart is a position, and the code between two awaits is one step.     *)
(***************************************************************************)
EXTENDS Integers, Sequences, FiniteSets, TLC

(***************************************************************************)
(* Bounds of the model.                                                    *)
(***************************************************************************)
\* the clock value (ms) at which the launch attempt begins
Epoch == 5000
\* granularity (ms) by which the clock advances
TimeStep == 1000
\* the clock stops advancing this many ms after Epoch
MaxElapsed == 21000
\* the clock is sampled every TimeStep for this many ms after the launcher is
\* called; after that it moves from one timer deadline to the next
FineWindow == 3000
\* longest manifest (number of [[actions]]) read from .itch.toml
MaxActions == 2
\* launch attempts made one after the other on the same cave
MaxLaunches == 2
\* saves of secondsRun made by another writer while a launch runs
MaxExternalWrites == 1
\* calls of startDownload
MaxCalls == 4
\* main windows constructed
MaxWindows == 2
\* focusWindow actions handled
MaxFocus == 4

(***************************************************************************)
(* Character strings.                                                      *)
(***************************************************************************)
UpperToLower ==
  [A |-> "a", B |-> "b", C |-> "c", D |-> "d", E |-> "e", F |-> "f", G |-> "g",
   H |-> "h", I |-> "i", J |-> "j", K |-> "k", L |-> "l", M |-> "m", N |-> "n",
   O |-> "o", P |-> "p", Q |-> "q", R |-> "r", S |-> "s", T |-> "t", U |-> "u",
   V |-> "v", W |-> "w", X |-> "x", Y |-> "y", Z |-> "z"]

\* one character under the regex flag /i
ToLower(c) == IF c \in DOMAIN UpperToLower THEN UpperToLower[c] ELSE c

\* the regex atom `.`: any character but a line terminator
AnyChar(c) == c \notin {"\n", "\r"}

\* s has w at position i (1-based), compared under /i
MatchAt(s, w, i) ==
  /\ i >= 1
  /\ i + Len(w) - 1 <= Len(s)
  /\ \A k \in 1..Len(w) : ToLower(s[i + k - 1]) = w[k]

\* regex /.(w1|w2|...)$/i : one arbitrary character, then one of the words, then the end
DotWordAtEnd(s, words) ==
  \E w \in words :
    /\ Len(s) >= Len(w) + 1
    /\ AnyChar(s[Len(s) - Len(w)])
    /\ MatchAt(s, w, Len(s) - Len(w) + 1)

\* regex /^(w1|w2|...)/i
WordAtStart(s, words) == \E w \in words : MatchAt(s, w, 1)

NativeSuffixes == { <<"a", "p", "p">>, <<"e", "x", "e">>, <<"b", "a", "t">>, <<"s", "h">> }
HtmlSuffixes == { <<"h", "t", "m">>, <<"h", "t", "m", "l">> }
UrlPrefixes == { <<"h", "t", "t", "p", ":">>, <<"h", "t", "t", "p", "s", ":">> }

ExtPlaceholder == <<"{", "{", "E", "X", "T", "}", "}">>

\* positions at which the literal w occurs in s (case-sensitive)
Occurrences(s, w) ==
  { i \in 1..Len(s) : /\ i + Len(w) - 1 <= Len(s)
                      /\ \A k \in 1..Len(w) : s[i + k - 1] = w[k] }

Min(S) == CHOOSE x \in S : \A y \in S : x <= y

\* String.prototype.replace with a non-global regex of a literal: the first
\* occurrence only is replaced
ReplaceFirst(s, w, by) ==
  IF Occurrences(s, w) = {} THEN s
  ELSE LET i == Min(Occurrences(s, w))
       IN SubSeq(s, 1, i - 1) \o by \o SubSeq(s, i + Len(w), Len(s))

Platforms == {"linux", "osx", "windows"}

\* an appExt that knows windows only
appExtWindowsOnly(plat) ==
  IF plat = "windows" THEN <<".", "e", "x", "e">> ELSE <<>>

appExt(plat) ==
  CASE plat = "osx" -> <<".", "a", "p", "p">>
    [] plat = "windows" -> <<".", "e", "x", "e">>
    [] OTHER -> <<>>

\* what fnout.path reports for the file at the action path
SniffResults ==
  { [linuxExecutable |-> FALSE, macExecutable |-> FALSE],
    [linuxExecutable |-> TRUE, macExecutable |-> FALSE],
    [linuxExecutable |-> FALSE, macExecutable |-> TRUE] }

\* launchTypeForAction returns before it reads the file
DecidedByName(actionPath) ==
  \/ DotWordAtEnd(actionPath, NativeSuffixes)
  \/ DotWordAtEnd(actionPath, HtmlSuffixes)
  \/ WordAtStart(actionPath, UrlPrefixes)

launchTypeForAction(actionPath, plat, sniffRes) ==
  IF DotWordAtEnd(actionPath, NativeSuffixes) THEN "native"
  ELSE IF DotWordAtEnd(actionPath, HtmlSuffixes) THEN "html"
  ELSE IF WordAtStart(actionPath, UrlPrefixes) THEN "external"
  ELSE IF \/ (sniffRes.linuxExecutable /\ plat = "linux")
          \/ (sniffRes.macExecutable /\ plat = "osx") THEN "native"
  ELSE "shell"

(***************************************************************************)
(* Cave records.                                                           *)
(***************************************************************************)
\* a field that was never set
Undefined == "undefined"

GameExe == <<"g", "a", "m", "e", ".", "e", "x", "e">>
PrereqExe ==
  <<"U", "E", "4", "P", "r", "e", "r", "e", "q", "S", "e", "t", "u", "p",
    "_", "x", "6", "4", ".", "e", "x", "e">>

NoExecutablesFound == "game.install.no_executables_found"
NoHtmlIndexFound == "game.install.no_html_index_found"

\* caveProblem without its html case
caveProblemNativeOnly(c) ==
  IF c.launchType = "native" /\ Len(c.executables) = 0 THEN <<NoExecutablesFound>> ELSE <<>>

\* the list of problem codes, <<>> when caveProblem returns undefined;
\* an unset list of executables is modelled as the empty list
caveProblem(c) ==
  CASE c.launchType = "native" ->
         IF Len(c.executables) = 0 THEN <<NoExecutablesFound>> ELSE <<>>
    [] c.launchType = "html" ->
         IF ~c.gamePath THEN <<NoHtmlIndexFound>> ELSE <<>>
    [] OTHER -> <<>>

\* regex /UE4PrereqSetup(_x64)?.exe/i, unanchored
IsUE4Prereq(x) ==
  LET setup == <<"u", "e", "4", "p", "r", "e", "r", "e", "q", "s", "e", "t", "u", "p">>
      x64 == <<"_", "x", "6", "4">>
      exe == <<"e", "x", "e">>
      Tail_(j) == j <= Len(x) /\ AnyChar(x[j]) /\ MatchAt(x, exe, j + 1)
  IN \E i \in 1..Len(x) :
       /\ MatchAt(x, setup, i)
       /\ \/ Tail_(i + Len(setup))
          \/ MatchAt(x, x64, i + Len(setup)) /\ Tail_(i + Len(setup) + Len(x64))

\* underscore's find: the first element satisfying the test, as a list of
\* zero or one element
FindPrereq(executables) ==
  LET hits == { i \in 1..Len(executables) : IsUE4Prereq(executables[i]) }
  IN IF hits = {} THEN <<>> ELSE <<executables[Min(hits)]>>

\* a cave whose secondsRun was never saved: the field is unset
NoSecondsRun == -1

LaunchTypeValues == {Undefined, "native", "html", "shell", "external", "bogus"}

ExecutableLists == { <<>>, <<GameExe>>, <<GameExe, PrereqExe>> }

\* executables are discovered for native caves only (launchType native or
\* unset), a content root for html caves only
Configurations ==
  { c \in [launchType : LaunchTypeValues, executables : ExecutableLists, gamePath : BOOLEAN] :
      /\ c.executables # <<>> => c.launchType \in {"native", Undefined}
      /\ c.gamePath => c.launchType = "html" }

\* the cave records a launch may start from; the prerequisite flag is set
\* only where the installer was found
Caves ==
  { c \in [launchType : LaunchTypeValues,
           executables : ExecutableLists,
           gamePath : BOOLEAN,
           secondsRun : {NoSecondsRun, 120},
           lastTouched : {0},
           installedUE4Prereq : BOOLEAN] :
      /\ [launchType |-> c.launchType, executables |-> c.executables,
          gamePath |-> c.gamePath] \in Configurations
      /\ c.installedUE4Prereq => c.executables = <<GameExe, PrereqExe>> }

\* what the configure task may leave in the record
Reconfigurations == { c \in Configurations : c.launchType \in {"native", "html", "shell"} }

(***************************************************************************)
(* Manifests.                                                              *)
(***************************************************************************)
ManifestActions ==
  { [name |-> "play",
     path |-> <<"G", "a", "m", "e", "{", "{", "E", "X", "T", "}", "}">>,
     scope |-> "", args |-> <<"--fullscreen">>],
    [name |-> "editor",
     path |-> <<"r", "u", "n", ".", "s", "h">>,
     scope |-> "wallet", args |-> <<>>],
    [name |-> "manual",
     path |-> <<"i", "n", "d", "e", "x", ".", "h", "t", "m", "l">>,
     scope |-> "", args |-> <<>>],
    [name |-> "site",
     path |-> <<"h", "t", "t", "p", "s", ":", "/", "/", "i", "t", "c", "h", ".", "i", "o">>,
     scope |-> "wallet", args |-> <<>>],
    [name |-> "tool",
     path |-> <<"b", "a", "s", "h">>,
     scope |-> "", args |-> <<>>],
    [name |-> "",
     path |-> <<"{", "{", "E", "X", "T", "}", "}", "x", "{", "{", "E", "X", "T", "}", "}">>,
     scope |-> "", args |-> <<>>] }

\* manifest.actions of every manifest the model reads
Manifests == UNION { [1..n -> ManifestActions] : n \in 0..MaxActions }

\* opts.manifestActionName; "" when none was supplied
ActionNames == {"", "play", "missing"}

\* JavaScript truthiness of a string-valued expression
Falsy(v) == v \in {"", Undefined}

\* underscore's findWhere(list, {name: n}), as a list of zero or one element
FindWhereName(actions_, n) ==
  LET hits == { i \in 1..Len(actions_) : actions_[i].name = n }
  IN IF hits = {} THEN <<>> ELSE <<actions_[Min(hits)]>>

\* what the subkey endpoint may answer
Subkeys == { [key |-> "key1", expiresAt |-> "exp1"], [key |-> "key2", expiresAt |-> "exp2"] }

\* a registry with a fifth launcher
LaunchersAndBogus == {"native", "html", "shell", "external", "bogus"}

\* the keys of the launchers registry
Launchers == {"native", "html", "shell", "external"}

UPDATE_PLAYTIME_INTERVAL == 10

(***************************************************************************)
(* State.                                                                  *)
(***************************************************************************)
VARIABLES
  platform,        \* os.itchPlatform()
  opts,            \* IStartTaskOpts: cave, manifestActionName
  action,          \* actionForGame(caveGame, cave)
  now,             \* Date.now()
  store,           \* the cave's record in globalMarket
  interval,        \* the setInterval timer: active, nextFire
  pc,              \* the await doStart is suspended at
  cave,            \* doStart's local `cave`
  launchType,      \* doStart's local `launchType`
  manifest,        \* manifest.actions, in scope while the manifest is resolved
  bigButtons,      \* the chooser's big buttons, in scope with the manifest
  buttons,         \* the chooser's plain buttons, in scope with the manifest
  response,        \* the modal's answer: a list of zero or one
  manifestAction,  \* the resolved action: a list of zero or one action
  subkey,          \* the subkey the API answered: a list of zero or one
  env,             \* the environment overlay: a set of <<name, value>>
  args,            \* the extra arguments
  startedAt,       \* the start timestamp
  caught,          \* the error the launcher rejected with: zero or one
  finishedAt,      \* the `now` of the finally block
  outcome,         \* "pending", "returned" or "threw"
  thrown,          \* the error doStart rejected with: zero or one
  repairCalls,     \* number of configure tasks started
  chooserCalls,    \* number of modals opened
  subkeyCalls,     \* the scopes a subkey was requested for
  spawnCalls,      \* the prerequisite installers spawned
  launched,        \* the launcher invocations: launcher and launch context
  explorerOpens,   \* number of explorer.open calls
  touches,         \* number of lastTouched saves made by doStart itself
  ticks,           \* number of interval callbacks run
  fileSig,         \* what fnout.path found at the action path
  attempt,         \* number of launch attempts started on the cave
  installs,        \* how each prerequisite installer ended, over all attempts
  externalWrites,  \* number of saves made by another writer
  orderSeed,       \* start-download: the module's orderSeed
  downloads,       \* start-download: store.getState().downloads, oldest first
  navigations,     \* start-download: number of navigate("downloads") dispatched
  downloadCalls,   \* start-download: the calls of startDownload, in order
  createLock,      \* main-window: the module's createLock
  firstWindow,     \* main-window: the module's firstWindow
  windows,         \* main-window: the BrowserWindows constructed, by id
  mainWindowId,    \* main-window: store.getState().ui.mainWindow.id, 0 for none
  firstWindowReadies, \* main-window: number of firstWindowReady dispatched
  declinedCreates, \* main-window: createWindow calls that returned at the lock
  focusEvents      \* main-window: the focusWindow actions handled, by origin

inputs == <<platform, opts, action>>
locals == <<cave, launchType, manifest, bigButtons, buttons, response, manifestAction,
            subkey, env, args>>
ending == <<caught, finishedAt, outcome, thrown>>
timing == <<startedAt, interval>>
calls == <<repairCalls, chooserCalls, subkeyCalls, spawnCalls, launched, explorerOpens,
           touches, ticks, fileSig>>
shared == <<attempt, installs, externalWrites>>
downloading == <<orderSeed, downloads, navigations, downloadCalls>>
windowing == <<createLock, firstWindow, windows, mainWindowId, firstWindowReadies,
               declinedCreates, focusEvents>>
reactors == <<downloading, windowing>>
launchState == <<inputs, now, store, pc, locals, ending, timing, calls, shared>>
vars == <<launchState, reactors>>

\* the reactors' modules as loaded, and a store without download or window
IdleReactors ==
  /\ orderSeed = 0
  /\ downloads = <<>>
  /\ navigations = 0
  /\ downloadCalls = <<>>
  /\ createLock = FALSE
  /\ firstWindow = TRUE
  /\ windows = <<>>
  /\ mainWindowId = 0
  /\ firstWindowReadies = 0
  /\ declinedCreates = 0
  /\ focusEvents = <<>>

NoSniff == [linuxExecutable |-> FALSE, macExecutable |-> FALSE]

Init ==
  /\ platform \in Platforms
  /\ store \in Caves
  /\ opts \in [cave : {store}, manifestActionName : ActionNames]
  /\ action \in {"open", "launch"}
  /\ now = Epoch
  /\ interval = [active |-> FALSE, nextFire |-> 0]
  /\ pc = "start"
  /\ cave = opts.cave
  /\ launchType = Undefined
  /\ manifest = <<>>
  /\ bigButtons = <<>>
  /\ buttons = <<>>
  /\ response = <<>>
  /\ manifestAction = <<>>
  /\ subkey = <<>>
  /\ env = {}
  /\ args = <<>>
  /\ startedAt = 0
  /\ caught = <<>>
  /\ finishedAt = 0
  /\ outcome = "pending"
  /\ thrown = <<>>
  /\ repairCalls = 0
  /\ chooserCalls = 0
  /\ subkeyCalls = <<>>
  /\ spawnCalls = <<>>
  /\ launched = <<>>
  /\ explorerOpens = 0
  /\ touches = 0
  /\ ticks = 0
  /\ fileSig = NoSniff
  /\ attempt = 1
  /\ installs = <<>>
  /\ externalWrites = 0
  /\ IdleReactors

(***************************************************************************)
(* Errors.                                                                 *)
(***************************************************************************)
CouldNotLaunch(problem) == [kind |-> "game.install.could_not_launch", reason |-> problem]
ManifestParseError == [kind |-> "ManifestParseError", reason |-> <<>>]
ManifestValidationError == [kind |-> "ManifestValidationError", reason |-> <<>>]
MissingNameError(i) == [kind |-> "in manifest, action is missing a name", reason |-> <<i>>]
UnsupportedLaunchType(t) == [kind |-> "Unsupported launch type", reason |-> <<t>>]
SubkeyError == [kind |-> "SubkeyError", reason |-> <<>>]
Crash == [kind |-> "Crash", reason |-> <<>>]
LauncherError == [kind |-> "LauncherError", reason |-> <<>>]

\* what a launcher may reject with
LauncherFailures == {Crash, LauncherError}

(***************************************************************************)
(* The ends of doStart.                                                    *)
(***************************************************************************)
\* `return`
Return == pc' = "done" /\ outcome' = "returned" /\ thrown' = <<>>

\* `throw e`
Throw(e) == pc' = "done" /\ outcome' = "threw" /\ thrown' = <<e>>

(***************************************************************************)
(* doStart, from its last await backwards.                                 *)
(***************************************************************************)
\* a save that loses the lastTouched field
TouchNothing(rec, t) == rec

\* a save that replaces the record's playtime instead of merging
TouchOverwrites(rec, t) == [rec EXCEPT !.lastTouched = t, !.secondsRun = 0]

\* globalMarket.saveEntity("caves", cave.id, {lastTouched: t})
Touch(rec, t) == [rec EXCEPT !.lastTouched = t]

\* a callback that forgets what was persisted
TickRecordOverwrites(rec, t) ==
  [rec EXCEPT !.secondsRun = UPDATE_PLAYTIME_INTERVAL, !.lastTouched = t]

\* a callback that adds to what doStart read when it began
TickRecordFromStart(rec, t) ==
  LET atStart == IF cave.secondsRun = NoSecondsRun THEN 0 ELSE cave.secondsRun
  IN [rec EXCEPT !.secondsRun = atStart + UPDATE_PLAYTIME_INTERVAL * (ticks + 1),
                 !.lastTouched = t]

\* the interval callback's new record
TickRecord(rec, t) ==
  LET previousSecondsRun == IF rec.secondsRun = NoSecondsRun THEN 0 ELSE rec.secondsRun
  IN [rec EXCEPT !.secondsRun = UPDATE_PLAYTIME_INTERVAL + previousSecondsRun,
                 !.lastTouched = t]

\* the launch context handed to the launcher
LaunchContext(lt, ma, e) ==
  [launcher |-> lt, manifestAction |-> ma, env |-> e,
   args |-> IF ma = <<>> THEN <<>> ELSE ma[1].args]

\* startedAt, the lastTouched save, setInterval and the launcher call
BeginLaunch(lt, ma, e, rec) ==
  /\ startedAt' = now
  /\ store' = Touch(rec, now)
  /\ touches' = touches + 1
  /\ interval' = [active |-> TRUE, nextFire |-> now + UPDATE_PLAYTIME_INTERVAL * 1000]
  /\ launched' = Append(launched, LaunchContext(lt, ma, e))
  /\ pc' = "launching"
  /\ UNCHANGED <<outcome, thrown>>

\* a check that does not read the persisted flag
NeedsPrereqIgnoringFlag(rec) ==
  /\ platform = "windows"
  /\ FindPrereq(rec.executables) # <<>>

\* the installer is to be spawned: on windows, the persisted flag unset, and
\* an installer among the persisted executables
NeedsPrereq(rec) ==
  /\ platform = "windows"
  /\ ~rec.installedUE4Prereq
  /\ FindPrereq(rec.executables) # <<>>

\* the UE4 prerequisite check: spawn the installer, or go on to the launch
Prereq(lt, ma, e) ==
  IF NeedsPrereq(store)
  THEN /\ spawnCalls' = Append(spawnCalls, FindPrereq(store.executables)[1])
       /\ pc' = "spawn"
       /\ UNCHANGED <<store, touches, startedAt, interval, launched, outcome, thrown>>
  ELSE /\ BeginLaunch(lt, ma, e, store)
       /\ UNCHANGED spawnCalls

\* gameOpts.manifestAction/env/args, the launcher lookup, then the prerequisite
Dispatching(lt, ma, e) ==
  /\ launchType' = lt
  /\ manifestAction' = ma
  /\ env' = e
  /\ args' = IF ma = <<>> THEN <<>> ELSE ma[1].args
  /\ IF lt \notin Launchers
     THEN /\ Throw(UnsupportedLaunchType(cave.launchType))
          /\ UNCHANGED <<store, touches, startedAt, interval, launched, spawnCalls>>
     ELSE Prereq(lt, ma, e)

\* the end of the manifest block: substitute {{EXT}} and classify, or
\* dispatch on the cave's launch type
AfterResolve(ma) ==
  /\ manifest' = <<>>
  /\ bigButtons' = <<>>
  /\ buttons' = <<>>
  /\ IF ma # <<>>
     THEN /\ manifestAction' =
               <<[ma[1] EXCEPT !.path = ReplaceFirst(@, ExtPlaceholder, appExt(platform))]>>
          /\ pc' = "classify"
          /\ UNCHANGED <<launchType, env, args, outcome, thrown, store, touches,
                         startedAt, interval, launched, spawnCalls>>
     ELSE Dispatching(launchType, <<>>, env)

\* the second caveProblem check
CheckAgain(c) ==
  IF caveProblem(c) # <<>>
  THEN Throw(CouldNotLaunch(caveProblem(c)))
  ELSE pc' = "exists" /\ UNCHANGED <<outcome, thrown>>

(***************************************************************************)
(* The steps of doStart.                                                   *)
(***************************************************************************)
\* a short-circuit that never calls the explorer
OpenFolderUnopened ==
  /\ store' = Touch(store, now)
  /\ touches' = touches + 1
  /\ explorerOpens' = explorerOpens
  /\ Return

\* the action is "open": save lastTouched, open the install folder, return
OpenFolder ==
  /\ store' = Touch(store, now)
  /\ touches' = touches + 1
  /\ explorerOpens' = explorerOpens + 1
  /\ Return

\* a start that never runs the configure task
StartWithoutRepair ==
  /\ pc = "start"
  /\ IF action = "open"
     THEN /\ store' = Touch(store, now)
          /\ touches' = touches + 1
          /\ explorerOpens' = explorerOpens + 1
          /\ Return
          /\ UNCHANGED launchType
     ELSE /\ launchType' = IF cave.launchType = Undefined THEN "native" ELSE cave.launchType
          /\ CheckAgain(cave)
          /\ UNCHANGED <<store, touches, explorerOpens>>
  /\ UNCHANGED <<shared, reactors>>
  /\ UNCHANGED <<inputs, now, interval, cave, manifest, bigButtons, buttons, response, manifestAction, subkey,
                 env, args, startedAt, caught, finishedAt, repairCalls, chooserCalls,
                 subkeyCalls, spawnCalls, launched, ticks, fileSig>>

\* from the call to the first await after the first caveProblem check
Start ==
  /\ pc = "start"
  /\ IF action = "open"
     THEN /\ OpenFolder
          /\ UNCHANGED <<launchType, repairCalls>>
     ELSE /\ launchType' = IF cave.launchType = Undefined THEN "native" ELSE cave.launchType
          /\ IF caveProblem(cave) # <<>>
             THEN /\ repairCalls' = repairCalls + 1
                  /\ pc' = "configure"
                  /\ UNCHANGED <<outcome, thrown>>
             ELSE /\ CheckAgain(cave)
                  /\ UNCHANGED repairCalls
          /\ UNCHANGED <<store, touches, explorerOpens>>
  /\ UNCHANGED <<shared, reactors>>
  /\ UNCHANGED <<inputs, now, interval, cave, manifest, bigButtons, buttons, response, manifestAction, subkey,
                 env, args, startedAt, caught, finishedAt, chooserCalls, subkeyCalls,
                 spawnCalls, launched, ticks, fileSig>>

\* the configure task ends; the cave is fetched again and checked again
Configured ==
  /\ pc = "configure"
  /\ \E r \in Reconfigurations :
       /\ store' = [store EXCEPT !.launchType = r.launchType,
                                 !.executables = r.executables,
                                 !.gamePath = r.gamePath]
       /\ cave' = store'
       /\ CheckAgain(cave')
  /\ UNCHANGED <<shared, reactors>>
  /\ UNCHANGED <<inputs, now, interval, launchType, manifest, bigButtons, buttons, response,
                 manifestAction, subkey, env, args, startedAt, caught, finishedAt, calls>>

\* sf.exists(manifestPath) answers
Exists ==
  /\ pc = "exists"
  /\ \E hasManifest \in BOOLEAN :
       IF hasManifest
       THEN /\ pc' = "readFile"
            /\ UNCHANGED <<launchType, manifestAction, env, args, outcome, thrown, store,
                           touches, startedAt, interval, launched, spawnCalls>>
       ELSE Dispatching(launchType, <<>>, env)
  /\ UNCHANGED <<shared, reactors>>
  /\ UNCHANGED <<inputs, now, cave, manifest, bigButtons, buttons, response, subkey, caught, finishedAt,
                 repairCalls, chooserCalls, subkeyCalls, explorerOpens, ticks, fileSig>>

\* sf.readFile answers and toml.parse runs
ReadFile ==
  /\ pc = "readFile"
  /\ \/ /\ Throw(ManifestParseError)
        /\ UNCHANGED manifest
     \/ /\ manifest' \in Manifests
        /\ pc' = "validate"
        /\ UNCHANGED <<outcome, thrown>>
  /\ UNCHANGED <<shared, reactors>>
  /\ UNCHANGED <<inputs, now, store, interval, cave, launchType, bigButtons, buttons,
                 response, manifestAction, subkey, env, args, startedAt, caught, finishedAt,
                 calls>>

\* the length test off by one
SeveralActionsOrOne(actions_) == Len(actions_) >= 1

\* manifest.actions.length > 1
SeveralActions(actions_) == Len(actions_) > 1

\* the test of the explicit-name branch, `!action`
PickedInvalid(found) == Falsy(action)

\* a loop that stops one action short
BigButtonsButLast(actions_) == [i \in 1..(Len(actions_) - 1) |-> actions_[i].name]

\* the bigButtons built for the chooser: the actions' names, in order
BigButtons(actions_) == [i \in 1..Len(actions_) |-> actions_[i].name]

\* index of the first action without a name, 0 if there is none
FirstNameless(actions_) ==
  LET bad == { i \in 1..Len(actions_) : Falsy(actions_[i].name) }
  IN IF bad = {} THEN 0 ELSE Min(bad)

\* validateManifest, then the choice of the manifest action
Resolve ==
  /\ pc = "validate"
  /\ \E valid \in BOOLEAN :
       IF ~valid
       THEN /\ Throw(ManifestValidationError)
            /\ UNCHANGED <<manifest, bigButtons, buttons, launchType, manifestAction, env, args, store, touches,
                           startedAt, interval, launched, spawnCalls, chooserCalls>>
       ELSE IF SeveralActions(manifest)
       THEN IF ~Falsy(opts.manifestActionName)
            THEN IF PickedInvalid(FindWhereName(manifest, opts.manifestActionName))
                 THEN /\ Return
                      /\ UNCHANGED <<manifest, bigButtons, buttons, launchType, manifestAction, env, args, store,
                                     touches, startedAt, interval, launched, spawnCalls,
                                     chooserCalls>>
                 ELSE /\ AfterResolve(FindWhereName(manifest, opts.manifestActionName))
                      /\ UNCHANGED chooserCalls
            ELSE IF FirstNameless(manifest) # 0
                 THEN /\ Throw(MissingNameError(FirstNameless(manifest) - 1))
                      /\ bigButtons' = SubSeq(BigButtons(manifest), 1, FirstNameless(manifest) - 1)
                      /\ UNCHANGED <<manifest, buttons, launchType, manifestAction, env, args,
                                     store, touches, startedAt, interval, launched,
                                     spawnCalls, chooserCalls>>
                 ELSE /\ bigButtons' = BigButtons(manifest)
                      /\ buttons' = <<"cancel">>
                      /\ chooserCalls' = chooserCalls + 1
                      /\ pc' = "modal"
                      /\ UNCHANGED <<manifest, launchType, manifestAction, env, args, store,
                                     touches, startedAt, interval, launched, spawnCalls,
                                     outcome, thrown>>
       ELSE /\ AfterResolve(IF Len(manifest) = 0 THEN <<>> ELSE <<manifest[1]>>)
            /\ UNCHANGED chooserCalls
  /\ UNCHANGED <<shared, reactors>>
  /\ UNCHANGED <<inputs, now, cave, response, subkey, caught, finishedAt, repairCalls,
                 subkeyCalls, explorerOpens, ticks, fileSig>>

\* the modal answers: a MODAL_RESPONSE naming one of the big buttons, or
\* anything else (the cancel button, the modal closed)
Modal ==
  /\ pc = "modal"
  /\ \/ \E i \in 1..Len(bigButtons) :
          /\ response' = <<[type |-> "MODAL_RESPONSE", manifestActionName |-> bigButtons[i]]>>
          /\ AfterResolve(FindWhereName(manifest, bigButtons[i]))
     \/ /\ response' = <<[type |-> "CLOSE_MODAL", manifestActionName |-> ""]>>
        /\ Return
        /\ UNCHANGED <<manifest, bigButtons, buttons, launchType, manifestAction, env, args, store, touches,
                       startedAt, interval, launched, spawnCalls>>
  /\ UNCHANGED <<shared, reactors>>
  /\ UNCHANGED <<inputs, now, cave, subkey, caught, finishedAt, repairCalls, chooserCalls,
                 subkeyCalls, explorerOpens, ticks, fileSig>>

\* an overlay that forgets the expiry
SubkeyEnvKeyOnly(sk) == { <<"ITCHIO_API_KEY", sk.key>> }

\* the overlay built from the subkey
SubkeyEnv(sk) ==
  { <<"ITCHIO_API_KEY", sk.key>>, <<"ITCHIO_API_KEY_EXPIRES_AT", sk.expiresAt>> }

\* an assignment that keeps the launch type of the cave
ReclassifiedKeepsStored(stored, classified) == stored

\* launchType = await launchTypeForAction(...): the launch type of the cave
\* is overwritten by the classification
Reclassified(stored, classified) == classified

\* launchTypeForAction answers; a scope asks for a subkey
Classify ==
  /\ pc = "classify"
  /\ \E sniffRes \in IF DecidedByName(manifestAction[1].path) THEN {fileSig}
                      ELSE SniffResults :
       /\ fileSig' = sniffRes
       /\ LET lt == Reclassified(launchType,
                                  launchTypeForAction(manifestAction[1].path, platform, sniffRes))
          IN IF ~Falsy(manifestAction[1].scope)
             THEN /\ subkeyCalls' = Append(subkeyCalls, manifestAction[1].scope)
                  /\ launchType' = lt
                  /\ pc' = "subkey"
                  /\ UNCHANGED <<manifestAction, env, args, outcome, thrown, store, touches,
                                 startedAt, interval, launched, spawnCalls>>
             ELSE /\ Dispatching(lt, manifestAction, env)
                  /\ UNCHANGED subkeyCalls
  /\ UNCHANGED <<shared, reactors>>
  /\ UNCHANGED <<inputs, now, cave, manifest, bigButtons, buttons, response, subkey, caught, finishedAt,
                 repairCalls, chooserCalls, explorerOpens, ticks>>

\* a failed request that is logged and passed over
SubkeyFailedGoesOn ==
  /\ Dispatching(launchType, manifestAction, env)
  /\ UNCHANGED subkey

\* client.subkey rejects: the error leaves doStart
SubkeyFailed ==
  /\ Throw(SubkeyError)
  /\ UNCHANGED <<subkey, launchType, manifestAction, env, args, store, touches,
                 startedAt, interval, launched, spawnCalls>>

\* client.subkey answers or fails
Subkey ==
  /\ pc = "subkey"
  /\ \/ SubkeyFailed
     \/ \E sk \in Subkeys :
          /\ subkey' = <<sk>>
          /\ Dispatching(launchType, manifestAction, SubkeyEnv(sk))
  /\ UNCHANGED <<shared, reactors>>
  /\ UNCHANGED <<inputs, now, cave, manifest, bigButtons, buttons, response, caught, finishedAt, repairCalls,
                 chooserCalls, subkeyCalls, explorerOpens, ticks, fileSig>>

\* how spawn may end: it throws, or the installer exits with code 0 or another
SpawnResults == {"threw", "zero", "nonzero"}

\* a step that records the prerequisite however the installer ended
PrereqSavedAlways(rec, res) == [rec EXCEPT !.installedUE4Prereq = TRUE]

\* the record after the prerequisite step: the flag is saved on exit code 0
PrereqSaved(rec, res) ==
  IF res = "zero" THEN [rec EXCEPT !.installedUE4Prereq = TRUE] ELSE rec

\* the prerequisite installer ends (exit code 0 or not) or spawn throws;
\* the launch begins in every case
Spawn ==
  /\ pc = "spawn"
  /\ \E res \in SpawnResults :
       /\ installs' = Append(installs, res)
       /\ BeginLaunch(launchType, manifestAction, env, PrereqSaved(store, res))
  /\ UNCHANGED <<attempt, externalWrites, reactors>>
  /\ UNCHANGED <<inputs, now, locals, caught, finishedAt, repairCalls, chooserCalls,
                 subkeyCalls, spawnCalls, explorerOpens, ticks, fileSig>>

\* the grace window compared with >= instead of >
IgnoreCrashAtTwo(e, elapsed) == e.kind = "Crash" /\ elapsed >= 2 * 1000

\* `e instanceof Crash` and secondsRunning > 2, with elapsed = Date.now() - startedAt
\* in ms: (elapsed / 1000) > 2 in floating point is elapsed > 2000
IgnoreCrash(e, elapsed) == e.kind = "Crash" /\ elapsed > 2 * 1000

\* a finally block that forgets clearInterval
FinallyKeepsInterval ==
  /\ interval' = interval
  /\ finishedAt' = now
  /\ store' = Touch(store, now)
  /\ touches' = touches + 1

\* the finally block: clearInterval and the last lastTouched save
Finally ==
  /\ interval' = [interval EXCEPT !.active = FALSE]
  /\ finishedAt' = now
  /\ store' = Touch(store, now)
  /\ touches' = touches + 1

\* the launcher's promise resolves
LauncherResolves ==
  /\ pc = "launching"
  /\ Return
  /\ Finally
  /\ UNCHANGED <<shared, reactors>>
  /\ UNCHANGED <<inputs, now, locals, startedAt, caught, repairCalls, chooserCalls,
                 subkeyCalls, spawnCalls, launched, explorerOpens, ticks, fileSig>>

\* the launcher's promise rejects
LauncherRejects ==
  /\ pc = "launching"
  /\ \E e \in LauncherFailures :
       /\ caught' = <<e>>
       /\ IF IgnoreCrash(e, now - startedAt) THEN Return ELSE Throw(e)
  /\ Finally
  /\ UNCHANGED <<shared, reactors>>
  /\ UNCHANGED <<inputs, now, locals, startedAt, repairCalls, chooserCalls,
                 subkeyCalls, spawnCalls, launched, explorerOpens, ticks, fileSig>>

\* the interval callback runs
Tick ==
  /\ interval.active
  /\ now >= interval.nextFire
  /\ store' = TickRecord(store, now)
  /\ interval' = [interval EXCEPT !.nextFire = now + UPDATE_PLAYTIME_INTERVAL * 1000]
  /\ ticks' = ticks + 1
  /\ UNCHANGED <<shared, reactors>>
  /\ UNCHANGED <<inputs, now, pc, locals, ending, startedAt, repairCalls, chooserCalls,
                 subkeyCalls, spawnCalls, launched, explorerOpens, touches, fileSig>>

\* time passes; the clock is read only while the launcher runs or a timer
\* is pending, so it is left alone elsewhere. It moves by TimeStep shortly
\* after the launcher was called, and to the timer's deadline later on.
Advance ==
  /\ pc = "launching" \/ interval.active
  /\ \E t \in {now + TimeStep, interval.nextFire} :
       /\ t > now
       /\ t <= Epoch + MaxElapsed
       /\ t = now + TimeStep => now - startedAt < FineWindow
       /\ now' = t
  /\ UNCHANGED <<shared, reactors>>
  /\ UNCHANGED <<inputs, store, pc, locals, ending, timing, calls>>

Next ==
  \/ Start
  \/ Configured
  \/ Exists
  \/ ReadFile
  \/ Resolve
  \/ Modal
  \/ Classify
  \/ Subkey
  \/ Spawn
  \/ LauncherResolves
  \/ LauncherRejects
  \/ Tick
  \/ Advance

Spec == Init /\ [][Next]_vars

(***************************************************************************)
(* Several launches of the same cave, one after the other.                 *)
(***************************************************************************)
\* start is called again once the previous attempt has ended: opts.cave is
\* the record as persisted, every local of doStart is fresh, and what the
\* attempt called is counted from nothing again
Relaunch ==
  /\ pc = "done"
  /\ attempt < MaxLaunches
  /\ attempt' = attempt + 1
  /\ opts' = [opts EXCEPT !.cave = store]
  /\ cave' = store
  /\ pc' = "start"
  /\ launchType' = Undefined
  /\ manifest' = <<>>
  /\ bigButtons' = <<>>
  /\ buttons' = <<>>
  /\ response' = <<>>
  /\ manifestAction' = <<>>
  /\ subkey' = <<>>
  /\ env' = {}
  /\ args' = <<>>
  /\ startedAt' = 0
  /\ interval' = [active |-> FALSE, nextFire |-> 0]
  /\ caught' = <<>>
  /\ finishedAt' = 0
  /\ outcome' = "pending"
  /\ thrown' = <<>>
  /\ repairCalls' = 0
  /\ chooserCalls' = 0
  /\ subkeyCalls' = <<>>
  /\ spawnCalls' = <<>>
  /\ launched' = <<>>
  /\ explorerOpens' = 0
  /\ touches' = 0
  /\ ticks' = 0
  /\ fileSig' = NoSniff
  /\ UNCHANGED <<platform, action, now, store, installs, externalWrites, reactors>>

\* the first attempt begins when the clock leaves room for one tick of the
\* playtime timer; the cave was played before and no action name is given
InitRelaunch ==
  /\ platform \in Platforms
  /\ store \in { c \in Caves : c.secondsRun # NoSecondsRun }
  /\ opts \in [cave : {store}, manifestActionName : {""}]
  /\ action \in {"open", "launch"}
  /\ now = Epoch + MaxElapsed - UPDATE_PLAYTIME_INTERVAL * 1000
  /\ interval = [active |-> FALSE, nextFire |-> 0]
  /\ pc = "start"
  /\ cave = opts.cave
  /\ launchType = Undefined
  /\ manifest = <<>>
  /\ bigButtons = <<>>
  /\ buttons = <<>>
  /\ response = <<>>
  /\ manifestAction = <<>>
  /\ subkey = <<>>
  /\ env = {}
  /\ args = <<>>
  /\ startedAt = 0
  /\ caught = <<>>
  /\ finishedAt = 0
  /\ outcome = "pending"
  /\ thrown = <<>>
  /\ repairCalls = 0
  /\ chooserCalls = 0
  /\ subkeyCalls = <<>>
  /\ spawnCalls = <<>>
  /\ launched = <<>>
  /\ explorerOpens = 0
  /\ touches = 0
  /\ ticks = 0
  /\ fileSig = NoSniff
  /\ attempt = 1
  /\ installs = <<>>
  /\ externalWrites = 0
  /\ IdleReactors

NextRelaunch ==
  \/ Next
  \/ Relaunch

SpecRelaunch == InitRelaunch /\ [][NextRelaunch]_vars

(***************************************************************************)
(* A launch while another writer saves secondsRun on the same cave.        *)
(***************************************************************************)
\* the values another writer saves
ExternalSeconds == {7, 300}

\* globalMarket.saveEntity("caves", cave.id, {secondsRun: v}) by another
\* writer, while the launcher runs
ExternalWrite ==
  /\ pc = "launching"
  /\ externalWrites < MaxExternalWrites
  /\ externalWrites' = externalWrites + 1
  /\ \E v \in ExternalSeconds : store' = [store EXCEPT !.secondsRun = v]
  /\ UNCHANGED <<inputs, now, pc, locals, ending, timing, calls, attempt, installs, reactors>>

NextShared ==
  \/ Next
  \/ ExternalWrite

SpecShared == Init /\ [][NextShared]_vars

(***************************************************************************)
(* launchTypeForAction on its own: the path, the platform and the file's   *)
(* signature are drawn at the start, and the one step classifies.          *)
(***************************************************************************)
ClassifyPaths ==
  { <<"G", "a", "m", "e", ".", "e", "x", "e">>,
    <<"G", "a", "m", "e", ".", "a", "p", "p">>,
    <<"r", "u", "n", ".", "S", "H">>,
    <<"g", "o", ".", "b", "a", "t">>,
    <<"i", "n", "d", "e", "x", ".", "h", "t", "m", "l">>,
    <<"a", ".", "H", "T", "M">>,
    <<"h", "t", "t", "p", "s", ":", "/", "/", "i", "t", "c", "h", ".", "i", "o">>,
    <<"h", "t", "t", "p", ":", "/", "/", "x", ".", "e", "x", "e">>,
    <<"H", "T", "T", "P", ":", "/", "/", "x", ".", "h", "t", "m", "l">>,
    <<"n", "o", "t", "e", "s">>,
    <<"G", "a", "m", "e">>,
    <<"s", "h">>,
    <<"b", "a", "s", "h">>,
    <<"x", "h", "t", "m", "l">> }

InitClassify ==
  /\ platform \in Platforms
  /\ fileSig \in SniffResults
  /\ manifestAction \in
       { <<[name |-> "play", path |-> p, scope |-> "", args |-> <<>>]>> : p \in ClassifyPaths }
  /\ pc = "classify"
  /\ store = [launchType |-> Undefined, executables |-> <<>>, gamePath |-> FALSE,
              secondsRun |-> NoSecondsRun, lastTouched |-> 0, installedUE4Prereq |-> FALSE]
  /\ opts = [cave |-> store, manifestActionName |-> ""]
  /\ action = "launch"
  /\ now = Epoch
  /\ interval = [active |-> FALSE, nextFire |-> 0]
  /\ cave = opts.cave
  /\ launchType = "native"
  /\ manifest = <<>>
  /\ bigButtons = <<>>
  /\ buttons = <<>>
  /\ response = <<>>
  /\ subkey = <<>>
  /\ env = {}
  /\ args = <<>>
  /\ startedAt = 0
  /\ caught = <<>>
  /\ finishedAt = 0
  /\ outcome = "pending"
  /\ thrown = <<>>
  /\ repairCalls = 0
  /\ chooserCalls = 0
  /\ subkeyCalls = <<>>
  /\ spawnCalls = <<>>
  /\ launched = <<>>
  /\ explorerOpens = 0
  /\ touches = 0
  /\ ticks = 0
  /\ attempt = 1
  /\ installs = <<>>
  /\ externalWrites = 0
  /\ IdleReactors

\* launchType = await launchTypeForAction(appPath, manifestAction.path)
ClassifyOnly ==
  /\ pc = "classify"
  /\ launchType' = launchTypeForAction(manifestAction[1].path, platform, fileSig)
  /\ pc' = "classified"
  /\ UNCHANGED <<shared, reactors>>
  /\ UNCHANGED <<inputs, now, store, interval, cave, manifest, bigButtons, buttons, response, manifestAction,
                 subkey, env, args, ending, startedAt, calls>>

NextClassify == ClassifyOnly

SpecClassify == InitClassify /\ [][NextClassify]_vars

(***************************************************************************)
(* reactors/tasks/start-download: startDownload and its two watchers.      *)
(* No launch is in progress.                                               *)
(***************************************************************************)
\* no launch: doStart was not called
IdleLaunch ==
  /\ platform = "linux"
  /\ store = [launchType |-> Undefined, executables |-> <<>>, gamePath |-> FALSE,
              secondsRun |-> NoSecondsRun, lastTouched |-> 0, installedUE4Prereq |-> FALSE]
  /\ opts = [cave |-> store, manifestActionName |-> ""]
  /\ action = "launch"
  /\ now = Epoch
  /\ interval = [active |-> FALSE, nextFire |-> 0]
  /\ pc = "idle"
  /\ cave = opts.cave
  /\ launchType = Undefined
  /\ manifest = <<>>
  /\ bigButtons = <<>>
  /\ buttons = <<>>
  /\ response = <<>>
  /\ manifestAction = <<>>
  /\ subkey = <<>>
  /\ env = {}
  /\ args = <<>>
  /\ startedAt = 0
  /\ caught = <<>>
  /\ finishedAt = 0
  /\ outcome = "pending"
  /\ thrown = <<>>
  /\ repairCalls = 0
  /\ chooserCalls = 0
  /\ subkeyCalls = <<>>
  /\ spawnCalls = <<>>
  /\ launched = <<>>
  /\ explorerOpens = 0
  /\ touches = 0
  /\ ticks = 0
  /\ fileSig = NoSniff
  /\ attempt = 1
  /\ installs = <<>>
  /\ externalWrites = 0

\* downloadOpts.game.id of the games downloaded
Games == {"g1", "g2"}

\* downloadsState.downloadsByGameId[gameId]: the game's download, the latest
\* started when it has several; a list of zero or one
downloadsByGameId(all, gameId) ==
  LET mine == { i \in 1..Len(all) : all[i].game = gameId }
  IN IF mine = {} THEN <<>> ELSE <<all[CHOOSE i \in mine : \A j \in mine : j <= i]>>

\* the reducer of downloadStarted: the download joins the store, unfinished
DownloadStarted(all, gameId, order) ==
  Append(all, [game |-> gameId, order |-> order, finished |-> FALSE])

\* a guard that lets every call through
AlreadyDownloadingNever(existing) == FALSE

\* existing && !existing.finished
AlreadyDownloading(existing) == existing # <<>> /\ ~existing[1].finished

\* startDownload(store, downloadOpts) for the game gameId; it has no await
\* and runs to its end in one step
startDownload(gameId) ==
  /\ orderSeed < MaxCalls
  /\ orderSeed' = orderSeed + 1
  /\ IF AlreadyDownloading(downloadsByGameId(downloads, gameId))
     THEN /\ navigations' = navigations + 1
          /\ downloads' = downloads
          /\ downloadCalls' =
               Append(downloadCalls, [game |-> gameId, order |-> orderSeed, started |-> FALSE])
     ELSE /\ downloads' = DownloadStarted(downloads, gameId, orderSeed)
          /\ navigations' = navigations
          /\ downloadCalls' =
               Append(downloadCalls, [game |-> gameId, order |-> orderSeed, started |-> TRUE])
  /\ UNCHANGED <<launchState, windowing>>

\* watcher.on(actions.queueDownload)
QueueDownload == \E gameId \in Games : startDownload(gameId)

\* watcher.on(actions.retryDownload): the payload carries the downloadOpts
\* of a download of the store
RetryDownload == \E i \in 1..Len(downloads) : startDownload(downloads[i].game)

\* the download pipeline ends a download: the store marks it finished
DownloadEnded ==
  /\ \E i \in 1..Len(downloads) :
       /\ ~downloads[i].finished
       /\ downloads' = [downloads EXCEPT ![i].finished = TRUE]
  /\ UNCHANGED <<launchState, windowing, orderSeed, navigations, downloadCalls>>

InitDownloads == IdleLaunch /\ IdleReactors

NextDownloads ==
  \/ QueueDownload
  \/ RetryDownload
  \/ DownloadEnded

SpecDownloads == InitDownloads /\ [][NextDownloads]_vars

(***************************************************************************)
(* reactors/main-window: createWindow, its ready-to-show and closed        *)
(* listeners, and the watchers of focusWindow and preferencesLoaded.       *)
(* A window's id is its position in windows.                               *)
(***************************************************************************)
\* the reducer of windowReady: the window becomes the main window
WindowReady(id) == id

\* the reducer of windowDestroyed: there is no main window
WindowDestroyed == 0

\* a lock that is never seen taken
LockedNever(lock) == FALSE

\* if (createLock) return
Locked(lock) == lock

\* createWindow(store, hidden); it has no await and runs to its end in one step
createWindow(hidden) ==
  IF Locked(createLock)
  THEN /\ declinedCreates' = declinedCreates + 1
       /\ UNCHANGED <<createLock, windows>>
  ELSE /\ Len(windows) < MaxWindows
       /\ createLock' = TRUE
       /\ windows' = Append(windows, [state |-> "loading", hidden |-> hidden])
       /\ UNCHANGED declinedCreates

\* the watcher of focusWindow: show or hide the main window when the store
\* has one, create it otherwise
HandleFocusWindow(origin, hidden) ==
  /\ Len(focusEvents) < MaxFocus
  /\ focusEvents' = Append(focusEvents, origin)
  /\ IF mainWindowId # 0
     THEN UNCHANGED <<createLock, windows, declinedCreates>>
     ELSE createWindow(hidden)
  /\ UNCHANGED <<launchState, downloading, firstWindow, mainWindowId, firstWindowReadies>>

\* a focusWindow action is dispatched
FocusWindow == \E hidden \in BOOLEAN : HandleFocusWindow("focusWindow", hidden)

\* watcher.on(actions.preferencesLoaded): dispatches focusWindow({hidden})
PreferencesLoaded ==
  \E openAsHidden \in BOOLEAN : HandleFocusWindow("preferencesLoaded", openAsHidden)

\* window.on("ready-to-show") of a window that is loading
ReadyToShow ==
  /\ \E id \in 1..Len(windows) :
       /\ windows[id].state = "loading"
       /\ windows' = [windows EXCEPT ![id].state = "ready"]
       /\ mainWindowId' = WindowReady(id)
  /\ createLock' = FALSE
  /\ firstWindow' = FALSE
  /\ firstWindowReadies' = IF firstWindow THEN firstWindowReadies + 1 ELSE firstWindowReadies
  /\ UNCHANGED <<launchState, downloading, declinedCreates, focusEvents>>

\* window.on("closed"): the window is destroyed, loaded or not
Closed ==
  /\ \E id \in 1..Len(windows) :
       /\ windows[id].state # "destroyed"
       /\ windows' = [windows EXCEPT ![id].state = "destroyed"]
  /\ mainWindowId' = WindowDestroyed
  /\ UNCHANGED <<launchState, downloading, createLock, firstWindow, firstWindowReadies,
                 declinedCreates, focusEvents>>

InitWindow == IdleLaunch /\ IdleReactors

NextWindow ==
  \/ FocusWindow
  \/ PreferencesLoaded
  \/ ReadyToShow
  \/ Closed

SpecWindow == InitWindow /\ [][NextWindow]_vars

(***************************************************************************)
(* Properties.                                                             *)
(***************************************************************************)
CouldNotLaunchKind == "game.install.could_not_launch"

\* C1: when the launcher fails, doStart returns normally if and only if the
\* failure is a Crash and more than 2 seconds (2000 ms) have passed since
\* startedAt; otherwise it rejects with the very error the launcher gave.
C1_CrashGrace ==
  (pc = "done" /\ caught # <<>>) =>
    /\ outcome = "returned" <=> (caught[1] = Crash /\ finishedAt - startedAt > 2000)
    /\ outcome # "returned" => (outcome = "threw" /\ thrown = caught)

\* a Crash exactly 2 seconds after the start is propagated
C1_Witness ==
  /\ pc = "done"
  /\ caught = <<Crash>>
  /\ finishedAt - startedAt = 2000
  /\ outcome = "threw"
  /\ thrown = <<Crash>>

\* C2: the configure task is started at most once per launch: once when the
\* first diagnostic of the cave reports a problem, never when it reports
\* none; when the cave fetched after the repair still has a problem doStart
\* rejects at once, with one repair made and no launcher called.
C2_RepairOnce ==
  /\ repairCalls <= 1
  /\ (action # "open" /\ pc # "start") =>
       (repairCalls = 1 <=> caveProblem(opts.cave) # <<>>)
  /\ action = "open" => repairCalls = 0
  /\ (repairCalls = 1 /\ pc # "configure" /\ caveProblem(cave) # <<>>) =>
       /\ pc = "done"
       /\ outcome = "threw"
       /\ launched = <<>>

\* the repair ran once, the cave still has a problem, doStart rejected
C2_Witness ==
  /\ pc = "done"
  /\ repairCalls = 1
  /\ caveProblem(cave) # <<>>
  /\ outcome = "threw"

\* the diagnostic as the claim words it
ProblemCodes(c) ==
  IF c.launchType = "native" /\ Len(c.executables) = 0 THEN <<NoExecutablesFound>>
  ELSE IF c.launchType = "html" /\ ~c.gamePath THEN <<NoHtmlIndexFound>>
  ELSE <<>>

C4_TickerStopped ==
  /\ [](interval.active => pc = "launching")
  /\ [][pc = "done" => (ticks' = ticks /\ store' = store)]_vars

\* a launch during which the callback ran has ended and the timer is cleared
C4_Witness ==
  /\ pc = "done"
  /\ ticks > 0
  /\ ~interval.active
  /\ caught = <<LauncherError>>

\* C5 as stated: on every path by which doStart ends a lastTouched save was made.
C5_TouchedOnEveryPath == pc = "done" => touches >= 1

\* C5 amended: a last lastTouched save is made exactly on the paths that call
\* the launcher (the finally block) and on the open-folder path; when doStart
\* ends earlier the record's lastTouched is never written.
C5_TouchedWhenLaunched ==
  pc = "done" =>
    IF launched # <<>>
    THEN touches = 2 /\ store.lastTouched = finishedAt
    ELSE IF action = "open"
    THEN touches = 1 /\ store.lastTouched = now /\ explorerOpens = 1
    ELSE touches = 0 /\ store.lastTouched = opts.cave.lastTouched

\* the launcher rejected after a tick and the finally block saved lastTouched
C5_Witness ==
  /\ pc = "done"
  /\ outcome = "threw"
  /\ caught # <<>>
  /\ ticks > 0
  /\ store.lastTouched = finishedAt
  /\ finishedAt > startedAt

\* s ends with the literal w, letter case apart
EndsWithWord(s, w) == Len(s) >= Len(w) /\ MatchAt(s, w, Len(s) - Len(w) + 1)

\* the classification as the claim words it: an extension begins with a
\* dot, a URL with http:// or https://
ClaimedLaunchType(actionPath, plat, sig) ==
  IF \E w \in { <<".", "a", "p", "p">>, <<".", "e", "x", "e">>,
                <<".", "b", "a", "t">>, <<".", "s", "h">> } : EndsWithWord(actionPath, w)
  THEN "native"
  ELSE IF \E w \in { <<".", "h", "t", "m">>, <<".", "h", "t", "m", "l">> } :
            EndsWithWord(actionPath, w)
  THEN "html"
  ELSE IF \E w \in { <<"h", "t", "t", "p", ":", "/", "/">>,
                     <<"h", "t", "t", "p", "s", ":", "/", "/">> } : MatchAt(actionPath, w, 1)
  THEN "external"
  ELSE IF (sig.linuxExecutable /\ plat = "linux") \/ (sig.macExecutable /\ plat = "osx")
  THEN "native"
  ELSE "shell"

\* C6: the classification is the first matching rule of: native-binary
\* extension (.app, .exe, .bat, .sh), html extension, http:// or https://
\* URL, ELF on linux or Mach-O on macOS, else shell.
C6_ClassifiedAsClaimed ==
  pc = "classified" =>
    launchType = ClaimedLaunchType(manifestAction[1].path, platform, fileSig)

\* the overlay the claim describes for a subkey
IssuedOverlay(sk) ==
  { <<"ITCHIO_API_KEY", sk.key>>, <<"ITCHIO_API_KEY_EXPIRES_AT", sk.expiresAt>> }

\* C7: for a manifest action with a scope the subkey is requested exactly
\* once and the overlay handed to the launcher holds the issued key and the
\* issued expiry under the two variable names; without a scope, or without a
\* manifest action, no subkey is requested and the overlay is empty.
C7_SubkeyOverlay ==
  /\ Len(subkeyCalls) <= 1
  /\ (manifestAction = <<>> \/ Falsy(manifestAction[1].scope)) =>
       (subkeyCalls = <<>> /\ subkey = <<>> /\ env = {})
  /\ (manifestAction # <<>> /\ ~Falsy(manifestAction[1].scope) /\ pc # "classify") =>
       subkeyCalls = <<manifestAction[1].scope>>
  /\ launched # <<>> =>
       /\ Len(launched) = 1
       /\ launched[1].manifestAction = manifestAction
       /\ IF manifestAction # <<>> /\ ~Falsy(manifestAction[1].scope)
          THEN subkey # <<>> /\ launched[1].env = IssuedOverlay(subkey[1])
          ELSE launched[1].env = {}

\* a launcher was called with the overlay of the second subkey
C7_Witness ==
  /\ launched # <<>>
  /\ subkeyCalls = <<"wallet">>
  /\ launched[1].env = { <<"ITCHIO_API_KEY", "key2">>, <<"ITCHIO_API_KEY_EXPIRES_AT", "exp2">> }

\* no two actions of the manifest have the same name
DistinctNames(actions_) ==
  \A i, j \in 1..Len(actions_) : actions_[i].name = actions_[j].name => i = j

\* validateManifest threw in this step
ValidationThrew == pc' = "done" /\ thrown' = <<ManifestValidationError>>

\* C8: with several actions and an explicit action name, the action of that
\* name is selected if there is one; if there is none doStart returns without
\* error and nothing is launched.
C8_ExplicitName ==
  [][(/\ pc = "validate"
      /\ Len(manifest) > 1
      /\ opts.manifestActionName # ""
      /\ \A i \in 1..Len(manifest) : manifest[i].name # ""
      /\ DistinctNames(manifest)
      /\ ~ValidationThrew) =>
       IF \E i \in 1..Len(manifest) : manifest[i].name = opts.manifestActionName
       THEN /\ manifestAction' # <<>>
            /\ manifestAction'[1].name = opts.manifestActionName
       ELSE /\ pc' = "done"
            /\ outcome' = "returned"
            /\ launched' = <<>>
            /\ subkeyCalls' = <<>>
            /\ ~interval'.active]_vars

\* what the chooser must be opened with for these actions
AllActionsAndCancel(actions_, big, plain) ==
  /\ big = [i \in 1..Len(actions_) |-> actions_[i].name]
  /\ plain = <<"cancel">>

\* the modal was answered by something other than a choice
ChooserCancelled == response # <<>> /\ response[1].type # "MODAL_RESPONSE"

\* nothing was launched and doStart returned
EndedAsNoOp ==
  /\ pc = "done"
  /\ outcome = "returned"
  /\ thrown = <<>>
  /\ subkeyCalls = <<>>
  /\ spawnCalls = <<>>
  /\ launched = <<>>
  /\ ~interval.active
  /\ ticks = 0

\* C9 as stated: with several actions and no explicit name the chooser is
\* opened, once, with all the actions and a cancel button.
C9_ChooserAlways ==
  [][(/\ pc = "validate"
      /\ Len(manifest) > 1
      /\ opts.manifestActionName = ""
      /\ DistinctNames(manifest)
      /\ ~ValidationThrew) =>
       (/\ pc' = "modal"
           /\ chooserCalls' = 1
           /\ AllActionsAndCancel(manifest, bigButtons', buttons'))]_vars

\* C9 amended: with several actions that all have a name and no explicit
\* name, the chooser is opened exactly once with all the actions and a cancel
\* button; when it is cancelled doStart returns without error and without
\* subkey, prerequisite, launcher or ticker; when an action is chosen the
\* launcher is called with that action.
C9_Chooser ==
  /\ [][(/\ pc = "validate"
         /\ Len(manifest) > 1
         /\ opts.manifestActionName = ""
         /\ \A i \in 1..Len(manifest) : manifest[i].name # ""
         /\ ~ValidationThrew) =>
          (/\ pc' = "modal"
           /\ chooserCalls' = 1
           /\ AllActionsAndCancel(manifest, bigButtons', buttons'))]_vars
  /\ [](chooserCalls <= 1)
  /\ [](ChooserCancelled => EndedAsNoOp)
  /\ []((response # <<>> /\ ~ChooserCancelled /\ launched # <<>>) =>
          /\ launched[1].manifestAction # <<>>
          /\ launched[1].manifestAction[1].name = response[1].manifestActionName)

\* the chooser was opened, an action was chosen and its launcher was called
C9_Witness ==
  /\ chooserCalls = 1
  /\ response # <<>>
  /\ response[1].manifestActionName = "editor"
  /\ launched # <<>>
  /\ launched[1].manifestAction[1].name = "editor"

\* C10: a manifest with exactly one action has that action selected, whatever
\* explicit name was given, and the chooser is never opened for it.
C10_SingleAction ==
  /\ [][(pc = "validate" /\ Len(manifest) = 1 /\ ~ValidationThrew) =>
          /\ pc' = "classify"
          /\ chooserCalls' = 0
          /\ manifestAction' # <<>>
          /\ manifestAction'[1].name = manifest[1].name
          /\ manifestAction'[1].scope = manifest[1].scope
          /\ manifestAction'[1].args = manifest[1].args]_vars
  /\ [](pc = "modal" => (Len(manifest) > 1 /\ Len(bigButtons) > 1))
  /\ [][chooserCalls' # chooserCalls => pc' = "modal"]_vars

\* the only action was selected although a name no action has was asked for
C10_Witness ==
  /\ pc = "classify"
  /\ opts.manifestActionName = "missing"
  /\ manifestAction # <<>>
  /\ chooserCalls = 0

\* the installers that ran to their end, over all attempts
InstallersRun == { i \in 1..Len(installs) : installs[i] # "threw" }

\* C11 as stated: over any sequence of launches of the same cave the
\* prerequisite installer is spawned at most once.
C11_SpawnedAtMostOnce == Cardinality(InstallersRun) <= 1

\* C11 amended: in one launch the installer is spawned at most once, and only
\* on windows with the persisted flag unset and an installer among the
\* persisted executables; a zero exit code sets the flag and no later launch
\* spawns the installer again, while a failed installer leaves the flag as it
\* was, so that the next launch spawns it again.
C11_SpawnGuard ==
  /\ [][spawnCalls' # spawnCalls /\ pc' = "spawn" =>
          /\ platform = "windows"
          /\ ~store.installedUE4Prereq
          /\ \E i \in 1..Len(store.executables) :
                /\ IsUE4Prereq(store.executables[i])
                /\ spawnCalls' = <<store.executables[i]>>]_vars
  /\ [](Len(spawnCalls) <= 1)
  /\ [](\A i \in 1..Len(installs) : installs[i] = "zero" =>
          (i = Len(installs) /\ store.installedUE4Prereq))
  /\ [][Len(installs') > Len(installs) /\ installs'[Len(installs')] # "zero" =>
          store'.installedUE4Prereq = store.installedUE4Prereq]_vars

\* the installer failed in the first launch and was spawned again, with
\* success, in the second
C11_Witness ==
  /\ attempt = 2
  /\ installs = <<"nonzero", "zero">>
  /\ store.installedUE4Prereq
  /\ pc = "launching"

\* C12: when spawn throws or the installer exits with a code other than 0,
\* doStart goes on and calls the launcher of the launch type, and the
\* persisted prerequisite flag stays false.
C12_PrereqBestEffort ==
  [][(pc = "spawn" /\ pc' # "spawn" /\ ~(installs' = Append(installs, "zero"))) =>
       /\ pc' = "launching"
       /\ outcome' = "pending"
       /\ Len(launched') = 1
       /\ launched'[1].launcher = launchType
       /\ launched'[1].manifestAction = manifestAction
       /\ ~store'.installedUE4Prereq]_vars

\* spawn threw, the launcher runs and the flag is still unset
C12_Witness ==
  /\ pc = "launching"
  /\ installs = <<"threw">>
  /\ spawnCalls # <<>>
  /\ launched # <<>>
  /\ ~store.installedUE4Prereq

\* the seconds a record counts, 0 when the field is unset
SecondsOf(rec) == IF rec.secondsRun = -1 THEN 0 ELSE rec.secondsRun

\* C13: while the launcher runs and nobody else writes, after n callbacks of
\* the timer the persisted secondsRun is its value at the start of the launch
\* (0 if unset) plus 10 * n; a callback runs every 10 seconds and also saves
\* lastTouched.
C13_Playtime ==
  /\ []((launched # <<>> /\ ticks > 0) =>
          store.secondsRun = SecondsOf(opts.cave) + 10 * ticks)
  /\ []((launched # <<>> /\ ticks = 0) => store.secondsRun = opts.cave.secondsRun)
  /\ [](pc = "launching" => 10000 * ticks <= now - startedAt)
  /\ [][ticks' # ticks =>
          /\ ticks' = ticks + 1
          /\ pc = "launching"
          /\ store'.lastTouched = now]_vars

\* started at secondsRun = 120, two callbacks later 140 is persisted
C13_Witness ==
  /\ pc = "launching"
  /\ opts.cave.secondsRun = 120
  /\ ticks = 2
  /\ store.secondsRun = 140
  /\ store.lastTouched = now

\* C14: in any interleaving of timer callbacks, lastTouched saves of doStart
\* and saves of secondsRun by another writer, each callback saves the
\* secondsRun persisted at that moment plus 10, and the lastTouched saves of
\* doStart leave secondsRun as it is.
C14_ReadThenWrite ==
  /\ [][ticks' # ticks =>
          /\ store'.secondsRun = SecondsOf(store) + 10
          /\ store'.lastTouched = now]_vars
  /\ [][touches' # touches => store'.secondsRun = store.secondsRun]_vars

\* another writer saved 300 between the first and the second callback, and
\* the second callback saved 310
C14_Witness ==
  /\ pc = "launching"
  /\ externalWrites = 1
  /\ ticks = 2
  /\ store.secondsRun = 310

\* C15: when the action of the cave is to open its folder, doStart saves
\* lastTouched, opens the folder once and returns in its first step: no
\* repair, no manifest, no chooser, no subkey, no installer, no launcher, no
\* timer, and nothing but lastTouched changes in the record.
C15_OpenFolder ==
  /\ [][action = "open" => (pc = "start" /\ pc' = "done")]_vars
  /\ []((action = "open" /\ pc = "done") =>
          /\ outcome = "returned"
          /\ thrown = <<>>
          /\ explorerOpens = 1
          /\ touches = 1
          /\ store = [opts.cave EXCEPT !.lastTouched = now]
          /\ repairCalls = 0
          /\ manifestAction = <<>>
          /\ chooserCalls = 0
          /\ subkeyCalls = <<>>
          /\ spawnCalls = <<>>
          /\ launched = <<>>
          /\ ticks = 0
          /\ ~interval.active)

\* the folder of a cave that could not be launched was opened, unrepaired
C15_Witness ==
  /\ action = "open"
  /\ pc = "done"
  /\ explorerOpens = 1
  /\ store.lastTouched = now
  /\ opts.cave.launchType = "native"
  /\ opts.cave.executables = <<>>
  /\ opts.cave.secondsRun = 120

\* C16: whenever a manifest action was resolved, the launcher called is the
\* one of the launch type that launchTypeForAction gives for the action's
\* path, whatever launch type the cave has.
C16_ClassifierDecides ==
  /\ (manifestAction # <<>> /\ pc \in {"subkey", "spawn", "launching"}) =>
       launchType = launchTypeForAction(manifestAction[1].path, platform, fileSig)
  /\ (launched # <<>> /\ launched[1].manifestAction # <<>>) =>
       /\ launched[1].launcher =
            launchTypeForAction(launched[1].manifestAction[1].path, platform, fileSig)
       /\ launched[1].launcher \in {"native", "html", "shell", "external"}

\* the shell launcher was called for the action of an html cave
C16_Witness ==
  /\ launched # <<>>
  /\ launched[1].manifestAction # <<>>
  /\ launched[1].manifestAction[1].name = "play"
  /\ launched[1].launcher = "shell"
  /\ cave.launchType = "html"

\* the launch type a cave record stores, native when it stores none
StoredLaunchType(c) == IF c.launchType = "undefined" THEN "native" ELSE c.launchType

\* C17: when no manifest action was resolved, the launcher called is the one
\* of the launch type stored in the cave, native when unset, the cave being
\* the record fetched again after the repair when a repair ran.
C17_StoredLaunchType ==
  (launched # <<>> /\ launched[1].manifestAction = <<>>) =>
    launched[1].launcher = StoredLaunchType(cave)

\* the four launch types a launcher is registered for
Recognized == {"native", "html", "shell", "external"}

\* doStart rejected with the unsupported-launch-type error
UnsupportedThrown ==
  /\ pc = "done"
  /\ outcome = "threw"
  /\ thrown # <<>>
  /\ thrown[1].kind = "Unsupported launch type"

\* C18: a launch type other than native, html, shell and external makes
\* doStart reject with the unsupported-launch-type error, without launcher
\* and without timer; for each of the four types the launcher of that type,
\* and no other, is called, at most once in a launch.
C18_Dispatch ==
  /\ [](UnsupportedThrown =>
          /\ launchType \notin Recognized
          /\ launched = <<>>
          /\ spawnCalls = <<>>
          /\ startedAt = 0
          /\ ticks = 0
          /\ ~interval.active)
  /\ [][(pc = "exists" /\ pc' \notin {"exists", "readFile"}) =>
          IF launchType \in Recognized
          THEN pc' \in {"spawn", "launching"} /\ launchType' = launchType
          ELSE UnsupportedThrown']_vars
  /\ [](pc \in {"spawn", "launching"} => launchType \in Recognized)
  /\ [](pc = "launching" => Len(launched) = 1)
  /\ [](Len(launched) <= 1)
  /\ [](launched # <<>> =>
          (launched[1].launcher = launchType /\ launchType \in Recognized))

\* a cave of an unknown launch type, without manifest, was refused
C18_Witness ==
  /\ UnsupportedThrown
  /\ cave.launchType = "bogus"
  /\ thrown[1].reason = <<"bogus">>
  /\ launched = <<>>

\* the path the manifest gives to the action of this name
ManifestPath(name) == (CHOOSE a \in ManifestActions : a.name = name).path

\* the characters {{EXT}} begin at position i of s
PlaceholderAt(s, i) ==
  /\ i + 6 <= Len(s)
  /\ SubSeq(s, i, i + 6) = <<"{", "{", "E", "X", "T", "}", "}">>

\* the suffix of the platform as the claim gives it
PlatformSuffix ==
  IF platform = "osx" THEN <<".", "a", "p", "p">>
  ELSE IF platform = "windows" THEN <<".", "e", "x", "e">>
  ELSE <<>>

\* got is from with its first {{EXT}}, if it has one, replaced by the suffix
SubstitutedOnce(from, got) ==
  IF \A i \in 1..Len(from) : ~PlaceholderAt(from, i)
  THEN got = from
  ELSE \E i \in 1..Len(from) :
         /\ PlaceholderAt(from, i)
         /\ \A j \in 1..(i - 1) : ~PlaceholderAt(from, j)
         /\ got = SubSeq(from, 1, i - 1) \o PlatformSuffix \o SubSeq(from, i + 7, Len(from))

\* C19: the path of the selected action has {{EXT}} replaced, in one
\* substitution, by the suffix of the platform (.app on osx, .exe on windows,
\* nothing elsewhere) before it is classified, and the launcher is handed
\* that same path; "Game{{EXT}}" on windows is "Game.exe", launched native.
C19_ExtSubstituted ==
  /\ manifestAction # <<>> =>
       SubstitutedOnce(ManifestPath(manifestAction[1].name), manifestAction[1].path)
  /\ (launched # <<>> /\ manifestAction # <<>>) =>
       launched[1].manifestAction[1].path = manifestAction[1].path
  /\ (manifestAction # <<>> /\ manifestAction[1].name = "play" /\ platform = "windows") =>
       /\ manifestAction[1].path = <<"G", "a", "m", "e", ".", "e", "x", "e">>
       /\ pc \in {"spawn", "launching"} => launchType = "native"
       /\ launched # <<>> => launched[1].launcher = "native"

\* "Game{{EXT}}" was launched on windows as "Game.exe" by the native launcher
C19_Witness ==
  /\ platform = "windows"
  /\ launched # <<>>
  /\ launched[1].manifestAction # <<>>
  /\ launched[1].manifestAction[1].path = <<"G", "a", "m", "e", ".", "e", "x", "e">>
  /\ launched[1].launcher = "native"
  /\ cave.launchType = "html"

\* C20: when the subkey request fails, doStart rejects with that error; the
\* request was made once and is not made again, no installer is spawned, no
\* launcher is called and the timer is never started.
C20_SubkeyFatal ==
  /\ [][(pc = "subkey" /\ pc' # "subkey" /\ subkey' = <<>>) =>
          /\ pc' = "done"
          /\ outcome' = "threw"
          /\ thrown' # <<>>
          /\ thrown'[1].kind = "SubkeyError"]_vars
  /\ []((thrown # <<>> /\ thrown[1].kind = "SubkeyError") =>
          /\ pc = "done"
          /\ Len(subkeyCalls) = 1
          /\ spawnCalls = <<>>
          /\ installs = <<>>
          /\ launched = <<>>
          /\ startedAt = 0
          /\ ticks = 0
          /\ ~interval.active)
  /\ [][pc = "done" => subkeyCalls' = subkeyCalls]_vars

\* the request failed on windows for a cave whose installer was still to run
C20_Witness ==
  /\ pc = "done"
  /\ thrown = <<[kind |-> "SubkeyError", reason |-> <<>>]>>
  /\ subkeyCalls = <<"wallet">>
  /\ platform = "windows"
  /\ ~store.installedUE4Prereq
  /\ Len(store.executables) = 2
  /\ launched = <<>>

\* C21: in a launch without another writer, secondsRun changes only in a
\* callback of the timer, and then by exactly 10 (from 0 when unset); it
\* never decreases; the lastTouched saves of doStart and the save of the
\* prerequisite flag leave it as it is, so a launch whose launcher ends
\* before the first callback leaves it unchanged.
C21_OnlyTicksCount ==
  /\ [][store'.secondsRun # store.secondsRun =>
          /\ ticks' = ticks + 1
          /\ store'.secondsRun = SecondsOf(store) + 10]_vars
  /\ [][touches' # touches => store'.secondsRun = store.secondsRun]_vars
  /\ [][installs' # installs => store'.secondsRun = store.secondsRun]_vars
  /\ [](SecondsOf(store) >= SecondsOf(opts.cave))
  /\ [](ticks = 0 => store.secondsRun = opts.cave.secondsRun)

\* the installer succeeded, the launcher returned before the first callback,
\* and the record still counts 120 seconds
C21_Witness ==
  /\ pc = "done"
  /\ outcome = "returned"
  /\ launched # <<>>
  /\ installs = <<"zero">>
  /\ store.installedUE4Prereq
  /\ touches = 2
  /\ ticks = 0
  /\ finishedAt > startedAt
  /\ store.secondsRun = 120

\* the unfinished downloads of a game in the store
Unfinished(all, gameId) == { i \in 1..Len(all) : all[i].game = gameId /\ ~all[i].finished }

\* C22: for any sequence of queueDownload and retryDownload, a download is
\* started only when the store has no unfinished download of that game, and a
\* call that starts none only navigates to the downloads; so a game never has
\* two unfinished downloads; every call, started or declined, gets an order
\* greater than every order given before.
C22_OneDownloadPerGame ==
  /\ [](\A g \in Games : Cardinality(Unfinished(downloads, g)) <= 1)
  /\ [][downloadCalls' # downloadCalls =>
          LET call == downloadCalls'[Len(downloadCalls')]
          IN /\ Len(downloadCalls') = Len(downloadCalls) + 1
             /\ \A i \in 1..Len(downloadCalls) : downloadCalls[i].order < call.order
             /\ IF Unfinished(downloads, call.game) = {}
                THEN /\ call.started
                     /\ Len(downloads') = Len(downloads) + 1
                     /\ downloads'[Len(downloads')].game = call.game
                     /\ downloads'[Len(downloads')].order = call.order
                     /\ navigations' = navigations
                ELSE /\ ~call.started
                     /\ downloads' = downloads
                     /\ navigations' = navigations + 1]_vars
  /\ [][Len(downloads') # Len(downloads) => downloadCalls' # downloadCalls]_vars

\* a second call for g1 was declined, its download then ended, and a third
\* call started a new download of g1
C22_Witness ==
  /\ Len(downloadCalls) = 3
  /\ \A i \in 1..3 : downloadCalls[i].game = "g1"
  /\ downloadCalls[1].started /\ ~downloadCalls[2].started /\ downloadCalls[3].started
  /\ navigations = 1
  /\ Len(downloads) = 2
  /\ downloads[1].finished /\ ~downloads[2].finished
  /\ downloads[2].order = 2

\* the windows constructed and not yet ready to show
UnderConstruction(ws) == { id \in 1..Len(ws) : ws[id].state = "loading" }

\* C23: at most one main window is under construction at any time; while
\* the lock is taken no handling of focusWindow, whatever dispatched it,
\* constructs a window; only a ready-to-show event releases the lock; and
\* firstWindowReady is dispatched at most once.
C23_OneWindowAtATime ==
  /\ [](Cardinality(UnderConstruction(windows)) <= 1)
  /\ [](UnderConstruction(windows) # {} => createLock)
  /\ [][(createLock /\ focusEvents' # focusEvents) => windows' = windows]_vars
  /\ [][Len(windows') > Len(windows) =>
          /\ ~createLock
          /\ createLock'
          /\ UnderConstruction(windows') = {Len(windows')}]_vars
  /\ [][(createLock /\ ~createLock') =>
          \E id \in UnderConstruction(windows) : windows'[id].state = "ready"]_vars
  /\ [](firstWindowReadies <= 1)
  /\ [][firstWindowReadies' # firstWindowReadies => (firstWindow /\ ~firstWindow')]_vars

\* a first window was shown and closed, a second one is shown; a call made
\* while one of them was loading constructed nothing
C23_Witness ==
  /\ Len(windows) = 2
  /\ windows[1].state = "destroyed"
  /\ windows[2].state = "ready"
  /\ mainWindowId = 2
  /\ declinedCreates = 1
  /\ firstWindowReadies = 1
  /\ ~createLock

====
